---- MODULE Spec2Model ----
(***************************************************************************)
(* Model of main.py: the Cloud Function `handle` that turns a monitoring   *)
(* incident into a Discord webhook message.                                *)
(*                                                                         *)
(* Python strings are TLA+ strings (TLC evaluates Len, \o and SubSeq on    *)
(* them).  A JSON value is a record [t, s, n]: t is its type tag, s its    *)
(* text when it is a string or a float literal, n its value when it is an  *)
(* integer or a boolean.  The tag "absent" stands for a key the object     *)
(* does not have.                                                          *)
(***************************************************************************)
EXTENDS Integers, Sequences, FiniteSets, TLC

VARIABLES pc, env, invocations, request, webhook_url, lines, joined, content,
          posts, sent, outcome, result

vars == <<pc, env, invocations, request, webhook_url, lines, joined, content,
          posts, sent, outcome, result>>

DISCORD_LIMIT == 2000

(* Bounds of the model. *)
MaxInvocations == 2
Slack == 2

-----------------------------------------------------------------------------
(* JSON values *)

Absent == [t |-> "absent", s |-> "", n |-> 0]
Null == [t |-> "null", s |-> "", n |-> 0]
JStr(x) == [t |-> "str", s |-> x, n |-> 0]
JInt(k) == [t |-> "int", s |-> "", n |-> k]
JFloat(x) == [t |-> "float", s |-> x, n |-> 0]
JBool(b) == [t |-> "bool", s |-> "", n |-> IF b THEN 1 ELSE 0]
EmptyList == [t |-> "list", s |-> "", n |-> 0]
EmptyDict == [t |-> "dict", s |-> "", n |-> 0]

(* Python truthiness of what dict.get returns for the value: None, "", 0,  *)
(* False, [] and {} are falsy; inf and nan are truthy floats.              *)
Truthy(v) ==
    CASE v.t = "absent" -> FALSE
      [] v.t = "null" -> FALSE
      [] v.t = "str" -> v.s # ""
      [] v.t = "int" -> v.n # 0
      [] v.t = "bool" -> v.n # 0
      [] v.t = "float" -> TRUE
      [] v.t = "list" -> FALSE
      [] v.t = "dict" -> FALSE

-----------------------------------------------------------------------------
(* Text helpers *)

Digit(d) == SubSeq("0123456789", d + 1, d + 1)

RECURSIVE NatToStr(_)
NatToStr(k) == IF k < 10 THEN Digit(k) ELSE NatToStr(k \div 10) \o Digit(k % 10)

IntToStr(k) == IF k < 0 THEN "-" \o NatToStr(0 - k) ELSE NatToStr(k)

Pad2(k) == IF k < 10 THEN "0" \o Digit(k) ELSE NatToStr(k)

RECURSIVE Rep(_, _)
Rep(s, k) ==
    IF k <= 0 THEN ""
    ELSE LET h == Rep(s, k \div 2)
         IN h \o h \o (IF k % 2 = 1 THEN s ELSE "")

StartsWith(s, p) == Len(s) >= Len(p) /\ SubSeq(s, 1, Len(p)) = p

EndsWith(s, p) == Len(s) >= Len(p) /\ SubSeq(s, Len(s) - Len(p) + 1, Len(s)) = p

Lower == "abcdefghijklmnopqrstuvwxyz"
UpperCase == "ABCDEFGHIJKLMNOPQRSTUVWXYZ"

UpperChar(c) ==
    IF \E i \in 1..26 : SubSeq(Lower, i, i) = c
    THEN LET i == CHOOSE j \in 1..26 : SubSeq(Lower, j, j) = c
         IN SubSeq(UpperCase, i, i)
    ELSE c

RECURSIVE Upper(_)
Upper(s) ==
    IF Len(s) = 0 THEN ""
    ELSE UpperChar(SubSeq(s, 1, 1)) \o Upper(SubSeq(s, 2, Len(s)))

RECURSIVE Join(_)
Join(ls) ==
    IF Len(ls) = 0 THEN ""
    ELSE IF Len(ls) = 1 THEN ls[1]
    ELSE ls[1] \o "\n" \o Join(Tail(ls))

(* str(x) as the f-strings and str() render a value. *)
PyStr(v) ==
    CASE v.t = "absent" -> "None"
      [] v.t = "null" -> "None"
      [] v.t = "str" -> v.s
      [] v.t = "int" -> IntToStr(v.n)
      [] v.t = "bool" -> (IF v.n = 1 THEN "True" ELSE "False")
      [] v.t = "float" -> v.s
      [] v.t = "list" -> "[]"
      [] v.t = "dict" -> "{}"

-----------------------------------------------------------------------------
(* _format_timestamp *)

IsDigits(s) == Len(s) > 0 /\ \A i \in 1..Len(s) : \E d \in 0..9 : SubSeq(s, i, i) = Digit(d)

DigitVal(c) == CHOOSE d \in 0..9 : Digit(d) = c

RECURSIVE ParseNat(_)
ParseNat(s) ==
    IF Len(s) = 0 THEN 0
    ELSE 10 * ParseNat(SubSeq(s, 1, Len(s) - 1)) + DigitVal(SubSeq(s, Len(s), Len(s)))

(* float(x).  The result is [exc, kind, n, f]: an integral number n, or    *)
(* the non-finite or huge float named f.  Strings are covered as far as    *)
(* the model's inputs go: an optionally signed run of decimal digits, the  *)
(* words float() reads as infinity or NaN, and text it rejects.            *)
PyFloat(v) ==
    LET num(k) == [exc |-> "none", kind |-> "number", n |-> k, f |-> ""]
        special(x) == [exc |-> "none", kind |-> "special", n |-> 0, f |-> x]
        raise(e) == [exc |-> e, kind |-> "none", n |-> 0, f |-> ""]
    IN CASE v.t = "int" -> num(v.n)
         [] v.t = "bool" -> num(v.n)
         [] v.t = "float" -> special(v.s)
         [] v.t = "str" ->
              IF IsDigits(v.s) THEN num(ParseNat(v.s))
              ELSE IF StartsWith(v.s, "-") /\ IsDigits(SubSeq(v.s, 2, Len(v.s)))
                   THEN num(0 - ParseNat(SubSeq(v.s, 2, Len(v.s))))
              ELSE IF v.s \in {"inf", "Infinity", "-inf"} THEN special("inf")
              ELSE IF v.s = "nan" THEN special("nan")
              ELSE raise("ValueError")
         [] OTHER -> raise("TypeError")

(* Days since 1970-01-01 to the proleptic Gregorian date, as datetime does. *)
CivilFromDays(days) ==
    LET z == days + 719468
        era == z \div 146097
        doe == z - era * 146097
        yoe == (doe - doe \div 1460 + doe \div 36524 - doe \div 146096) \div 365
        doy == doe - (365 * yoe + yoe \div 4 - yoe \div 100)
        mp == (5 * doy + 2) \div 153
        d == doy - (153 * mp + 2) \div 5 + 1
        m == IF mp < 10 THEN mp + 3 ELSE mp - 9
        y == yoe + era * 400 + (IF m <= 2 THEN 1 ELSE 0)
    IN [year |-> y, month |-> m, day |-> d]

(* datetime.fromtimestamp(ts, tz=utc).strftime("%Y-%m-%d %H:%M:%SZ") for an *)
(* integral ts within the model's integers (years 1901..2038).              *)
Strftime(ts) ==
    LET date == CivilFromDays(ts \div 86400)
        sod == ts % 86400
    IN NatToStr(date.year) \o "-" \o Pad2(date.month) \o "-" \o Pad2(date.day) \o " "
       \o Pad2(sod \div 3600) \o ":" \o Pad2((sod % 3600) \div 60) \o ":" \o Pad2(sod % 60)
       \o "Z"

(* What datetime.fromtimestamp raises for a float that is no date: NaN and  *)
(* a year past 9999 give ValueError, infinity and a magnitude beyond time_t *)
(* give OverflowError.                                                     *)
FromTimestampError(f) ==
    CASE f = "nan" -> "ValueError"
      [] f = "1000000000000.0" -> "ValueError"
      [] f = "inf" -> "OverflowError"
      [] f = "1e+19" -> "OverflowError"

Caught(e) == e \in {"ValueError", "TypeError", "OSError"}

(* The result is [exc, text]; exc is "none" or the exception that leaves    *)
(* the function.                                                           *)
FormatTimestamp(v) ==
    IF v.t \in {"absent", "null"} \/ (v.t = "str" /\ v.s = "")
    THEN [exc |-> "none", text |-> "n/a"]
    ELSE LET ts == PyFloat(v)
             e == IF ts.exc # "none" THEN ts.exc
                  ELSE IF ts.kind = "special" THEN FromTimestampError(ts.f)
                  ELSE "none"
         IN IF e = "none" THEN [exc |-> "none", text |-> Strftime(ts.n)]
            ELSE IF Caught(e) THEN [exc |-> "none", text |-> PyStr(v)]
            ELSE [exc |-> e, text |-> ""]

-----------------------------------------------------------------------------
(* _build_message *)

(* The incident: every key the formatter reads.  resource and metric carry  *)
(* their own type tag t; their inner fields count only when t = "dict".     *)
NoLabels == [t |-> "absent", instance_id |-> Absent]
NoResource == [t |-> "absent", labels |-> NoLabels]
NoMetric == [t |-> "absent", displayName |-> Absent, type |-> Absent]

EmptyIncident ==
    [summary |-> Absent, severity |-> Absent, state |-> Absent,
     policy_name |-> Absent, condition_name |-> Absent,
     resource_display_name |-> Absent, resource_name |-> Absent,
     resource |-> NoResource, metric |-> NoMetric,
     started_at |-> Absent, ended_at |-> Absent,
     observed_value |-> Absent, threshold_value |-> Absent,
     url |-> Absent, apigee_url |-> Absent]

(* a or b *)
Or(a, b) == IF Truthy(a) THEN a ELSE b

(* incident.get("resource", {}).get("labels", {}).get("instance_id"):       *)
(* [exc, val].  A missing key gives the {} default; a value that is present *)
(* and is no dict has no .get.                                              *)
InstanceId(resource) ==
    IF resource.t = "absent" THEN [exc |-> "none", val |-> Null]
    ELSE IF resource.t # "dict" THEN [exc |-> "AttributeError", val |-> Null]
    ELSE IF resource.labels.t = "absent" THEN [exc |-> "none", val |-> Null]
    ELSE IF resource.labels.t # "dict" THEN [exc |-> "AttributeError", val |-> Null]
    ELSE [exc |-> "none", val |-> resource.labels.instance_id]

ResourceDisplayNameFirst(incident) ==
    IF Truthy(incident.resource_name)
    THEN [exc |-> "none", val |-> incident.resource_name]
    ELSE IF Truthy(incident.resource_display_name)
    THEN [exc |-> "none", val |-> incident.resource_display_name]
    ELSE LET id == InstanceId(incident.resource)
         IN IF id.exc # "none" THEN id
            ELSE [exc |-> "none", val |-> Or(id.val, JStr("(unknown resource)"))]

(* Lines 60-65: the chain is evaluated left to right and stops at the first *)
(* truthy operand.                                                          *)
ResourceDisplay(incident) ==
    IF Truthy(incident.resource_display_name)
    THEN [exc |-> "none", val |-> incident.resource_display_name]
    ELSE IF Truthy(incident.resource_name)
    THEN [exc |-> "none", val |-> incident.resource_name]
    ELSE LET id == InstanceId(incident.resource)
         IN IF id.exc # "none" THEN id
            ELSE [exc |-> "none", val |-> Or(id.val, JStr("(unknown resource)"))]

(* Lines 66-67. *)
MetricDisplay(incident) ==
    LET metric == incident.metric
    IN IF metric.t = "absent"
       THEN [exc |-> "none", val |-> JStr("(unknown metric)")]
       ELSE IF metric.t # "dict" THEN [exc |-> "AttributeError", val |-> Null]
       ELSE [exc |-> "none",
             val |-> Or(metric.displayName, Or(metric.type, JStr("(unknown metric)")))]

(* Line 57: (incident.get("state") or "UNKNOWN").upper() *)
StateDisplay(incident) ==
    LET v == Or(incident.state, JStr("UNKNOWN"))
    IN IF v.t = "str" THEN [exc |-> "none", val |-> JStr(Upper(v.s))]
       ELSE [exc |-> "AttributeError", val |-> Null]

(* Line 89 *)
LinkUrl(incident) == Or(incident.url, incident.apigee_url)

OptionalLinesIfPresent(incident) ==
    LET present(v) == v.t \notin {"absent", "null"}
    IN (IF present(incident.observed_value)
        THEN <<"Observed Value: " \o PyStr(incident.observed_value)>> ELSE <<>>)
       \o (IF present(incident.threshold_value)
           THEN <<"Threshold: " \o PyStr(incident.threshold_value)>> ELSE <<>>)
       \o (IF Truthy(LinkUrl(incident))
           THEN <<"Link: " \o PyStr(LinkUrl(incident))>> ELSE <<>>)

(* Lines 81-91: the conditional lines. *)
OptionalLines(incident) ==
    (IF Truthy(incident.observed_value)
     THEN <<"Observed Value: " \o PyStr(incident.observed_value)>> ELSE <<>>)
    \o (IF Truthy(incident.threshold_value)
        THEN <<"Threshold: " \o PyStr(incident.threshold_value)>> ELSE <<>>)
    \o (IF Truthy(LinkUrl(incident))
        THEN <<"Link: " \o PyStr(LinkUrl(incident))>> ELSE <<>>)

TruncateAtLimit(text) ==
    IF Len(text) >= DISCORD_LIMIT
    THEN SubSeq(text, 1, DISCORD_LIMIT - 3) \o "..."
    ELSE text

(* Lines 93-95 *)
Truncate(text) ==
    IF Len(text) > DISCORD_LIMIT
    THEN SubSeq(text, 1, DISCORD_LIMIT - 3) \o "..."
    ELSE text

(* The result is [exc, lines, joined, content]; exc is "none" or the first  *)
(* exception raised, in statement order.                                    *)
BuildMessage(incident) ==
    LET summary == Or(incident.summary, JStr("(no summary)"))
        severity == Or(incident.severity, JStr("UNSPECIFIED"))
        state == StateDisplay(incident)
        policy_name == Or(incident.policy_name, JStr("(no policy name)"))
        condition == Or(incident.condition_name, JStr("(no condition name)"))
        resource_display == ResourceDisplay(incident)
        metric_display == MetricDisplay(incident)
        started_at == FormatTimestamp(incident.started_at)
        ended_at == FormatTimestamp(incident.ended_at)
        raised == SelectSeq(<<state.exc, resource_display.exc, metric_display.exc,
                              started_at.exc, ended_at.exc>>,
                            LAMBDA e : e # "none")
        ls == <<"**" \o PyStr(summary) \o "**",
                "State: " \o PyStr(state.val) \o " | Severity: " \o PyStr(severity),
                "Policy: " \o PyStr(policy_name) \o " | Condition: " \o PyStr(condition),
                "Resource: " \o PyStr(resource_display.val),
                "Metric: " \o PyStr(metric_display.val),
                "Started: " \o started_at.text \o " | Ended: " \o ended_at.text>>
              \o OptionalLines(incident)
    IN IF raised # <<>>
       THEN [exc |-> raised[1], lines |-> <<>>, joined |-> "", content |-> ""]
       ELSE [exc |-> "none", lines |-> ls, joined |-> Join(ls),
             content |-> Truncate(Join(ls))]

-----------------------------------------------------------------------------
(* _parse_request *)

(* A request body: kind is "invalid" when get_json raises, else the type of *)
(* the decoded value; incident is the value under the key 'incident' of a   *)
(* decoded object, with its type tag t.                                     *)
Body(kind, tag, fields) == [kind |-> kind, incident |-> [t |-> tag, fields |-> fields]]

ParseRequestNoBodyCheck(req) ==
    IF req.kind = "invalid"
    THEN [exc |-> "ValueError", msg |-> "Request body must be valid JSON",
          incident |-> EmptyIncident]
    ELSE IF req.kind # "dict" \/ req.incident.t # "dict"
    THEN [exc |-> "ValueError", msg |-> "Payload must include an 'incident' object",
          incident |-> EmptyIncident]
    ELSE [exc |-> "none", msg |-> "", incident |-> req.incident.fields]

(* The result is [exc, msg, incident]. *)
ParseRequest(req) ==
    IF req.kind = "invalid"
    THEN [exc |-> "ValueError", msg |-> "Request body must be valid JSON",
          incident |-> EmptyIncident]
    ELSE IF req.kind # "dict"
    THEN [exc |-> "ValueError", msg |-> "JSON payload must be an object",
          incident |-> EmptyIncident]
    ELSE IF req.incident.t # "dict"
    THEN [exc |-> "ValueError", msg |-> "Payload must include an 'incident' object",
          incident |-> EmptyIncident]
    ELSE [exc |-> "none", msg |-> "", incident |-> req.incident.fields]

-----------------------------------------------------------------------------
(* _post_to_discord *)

NoCall == [url |-> "", method |-> "", contentType |-> "", data |-> "", timeout |-> 0]

(* json.dumps of a str: the characters the messages can hold that JSON      *)
(* escapes are the quote, the backslash and the newline.                    *)
EscapeChar(c) ==
    CASE c = "\"" -> "\\\""
      [] c = "\\" -> "\\\\"
      [] c = "\n" -> "\\n"
      [] OTHER -> c

RECURSIVE JsonEscape(_)
JsonEscape(s) ==
    IF Len(s) = 0 THEN ""
    ELSE IF Len(s) = 1 THEN EscapeChar(s)
    ELSE LET m == Len(s) \div 2
         IN JsonEscape(SubSeq(s, 1, m)) \o JsonEscape(SubSeq(s, m + 1, Len(s)))

JsonDumpsUnescaped(text) == "{\"content\": \"" \o text \o "\"}"

(* Line 113: json.dumps({"content": content}) *)
JsonDumps(text) == "{\"content\": \"" \o JsonEscape(text) \o "\"}"

(* Request(...) of lines 114-119 accepts only a URL with a scheme. *)
HasScheme(url) == StartsWith(url, "https://") \/ StartsWith(url, "http://")

(* What urlopen gives for what the network does: the response when the      *)
(* final status is 2xx, HTTPError for any other status, URLError for a      *)
(* failure to connect or to send, and the error itself when the connection  *)
(* times out or drops while the response is read.                           *)
Urlopen(o) ==
    IF o.kind = "status"
    THEN IF 200 <= o.code /\ o.code < 300
         THEN [exc |-> "none", status |-> o.code]
         ELSE [exc |-> "HTTPError", status |-> o.code]
    ELSE [exc |-> o.kind, status |-> 0]

PostToDiscordIgnoresHTTPError(o) ==
    LET r == Urlopen(o)
    IN IF r.exc \in {"none", "HTTPError"} THEN "none"
       ELSE IF r.exc = "URLError" THEN "RuntimeError"
       ELSE r.exc

(* Lines 121-129: the exception that leaves _post_to_discord, or "none". *)
PostToDiscord(o) ==
    LET r == Urlopen(o)
    IN IF r.exc = "none"
       THEN IF r.status >= 300 THEN "RuntimeError" ELSE "none"
       ELSE IF r.exc = "HTTPError" THEN "RuntimeError"
       ELSE IF r.exc = "URLError" THEN "RuntimeError"
       ELSE r.exc

-----------------------------------------------------------------------------
(* handle *)

NoResult == [kind |-> "none", status |-> 0, body |-> "", exc |-> ""]
Response(body, status) == [kind |-> "response", status |-> status, body |-> body, exc |-> ""]
Raised(e) == [kind |-> "raised", status |-> 0, body |-> "", exc |-> e]

ConfiguredNotNone(u) == u.t # "null"

(* Lines 20-21: os.getenv gave a value that `not webhook_url` lets pass. *)
Configured(u) == Truthy(u)

(* Lines 27-33: the return of handle once the POST has resolved. *)
AfterPost(e) ==
    IF e = "none" THEN Response("OK", 200)
    ELSE IF e = "RuntimeError" THEN Response("Failed to deliver incident", 502)
    ELSE Raised(e)

-----------------------------------------------------------------------------
(* Inputs *)

TextValues ==
    {Null, JStr(""), JStr("Disk full"), JStr("open"), JStr("say \"hi\" \\ bye"),
     JInt(0), JInt(7), JBool(TRUE), EmptyList}

TextFields == {"summary", "severity", "state", "policy_name", "condition_name"}

TextIncidents == {[EmptyIncident EXCEPT ![f] = v] : f \in TextFields, v \in TextValues}

Labels ==
    {NoLabels, [t |-> "null", instance_id |-> Absent]}
    \cup {[t |-> "dict", instance_id |-> v] :
            v \in {Absent, JStr("i-123"), JStr(""), JInt(0), JInt(42)}}

Resources ==
    {NoResource, [t |-> "null", labels |-> NoLabels], [t |-> "str", labels |-> NoLabels]}
    \cup {[t |-> "dict", labels |-> l] : l \in Labels}

ResourceIncidents ==
    {[EmptyIncident EXCEPT !.resource_display_name = a, !.resource_name = b, !.resource = r] :
        a \in {Absent, JStr(""), JStr("web-1"), JInt(0)},
        b \in {Absent, Null, JStr("projects/p/instances/web-1")},
        r \in Resources}

Metrics ==
    {NoMetric, [NoMetric EXCEPT !.t = "null"], [NoMetric EXCEPT !.t = "str"],
     [NoMetric EXCEPT !.t = "list"]}
    \cup {[t |-> "dict", displayName |-> a, type |-> b] :
            a \in {Absent, JStr(""), JStr("CPU utilization"), JInt(0)},
            b \in {Absent, Null, JStr("compute.googleapis.com/instance/cpu/utilization")}}

MetricIncidents == {[EmptyIncident EXCEPT !.metric = m] : m \in Metrics}

TimestampValues ==
    {Absent, Null, JStr(""), JInt(0), JStr("0"), JInt(1700000000), JStr("1700000000"),
     JInt(-1), JStr("-86400"), JStr("2024-01-01T00:00:00Z"), JStr("nan"), JStr("Infinity"),
     JFloat("inf"), JFloat("nan"), JFloat("1000000000000.0"), JFloat("1e+19"),
     JBool(TRUE), EmptyList, EmptyDict}

TimestampIncidents ==
    {[EmptyIncident EXCEPT !.started_at = a, !.ended_at = b] :
        a \in TimestampValues, b \in TimestampValues}

OptionalIncidents ==
    {[EmptyIncident EXCEPT !.observed_value = a, !.threshold_value = b,
                           !.url = c, !.apigee_url = d] :
        a \in {Absent, Null, JInt(0), JInt(95), JStr(""), JStr("95%")},
        b \in {Absent, JInt(0), JInt(90), JStr("0.9")},
        c \in {Absent, JStr(""), JStr("https://console.cloud.google.com/monitoring/alerting/incidents/1")},
        d \in {Absent, Null, JStr("https://apigee.example/incidents/1")}}

(* The incident of the spec's worked example. *)
DiskFull ==
    [EmptyIncident EXCEPT !.summary = JStr("Disk full"), !.state = JStr("open"),
                          !.severity = JStr("critical"), !.observed_value = JInt(95)]

(* Summaries that bring the joined text to DISCORD_LIMIT - Slack ..         *)
(* DISCORD_LIMIT + Slack characters, and one far beyond.                    *)
FixedLen == Len(BuildMessage(EmptyIncident).joined) - Len("(no summary)")

LongIncidents ==
    {[i EXCEPT !.summary = JStr(Rep("x", DISCORD_LIMIT - FixedLen - Len(OptionalLines(i)[1]) - 1 + d))] :
        i \in {[EmptyIncident EXCEPT !.url = JStr("https://console.cloud.google.com/x")]},
        d \in (0 - Slack)..Slack}
    \cup {[EmptyIncident EXCEPT !.summary = JStr(Rep("x", DISCORD_LIMIT - FixedLen + d))] :
            d \in ((0 - Slack)..Slack) \cup {DISCORD_LIMIT}}

Incidents ==
    {EmptyIncident, DiskFull} \cup TextIncidents \cup ResourceIncidents \cup MetricIncidents
    \cup TimestampIncidents \cup OptionalIncidents \cup LongIncidents

Requests ==
    {Body(k, "absent", EmptyIncident) : k \in {"invalid", "null", "list", "str", "int", "dict"}}
    \cup {Body("dict", tg, EmptyIncident) : tg \in {"null", "str", "list", "int"}}
    \cup {Body(k, "dict", DiskFull) : k \in {"invalid", "list"}}
    \cup {Body("dict", "dict", i) : i \in Incidents}

(* os.getenv("WEBHOOK_URL"): None when unset. *)
EnvValues ==
    {Null, JStr(""), JStr("https://discord.com/api/webhooks/1/token"),
     JStr("discord.com/api/webhooks/1/token")}

Statuses == {101, 200, 204, 299, 300, 304, 400, 404, 429, 500}

NoOutcome == [kind |-> "none", code |-> 0]

Outcomes ==
    {[kind |-> "status", code |-> s] : s \in Statuses}
    \cup {[kind |-> k, code |-> 0] : k \in {"URLError", "TimeoutError", "RemoteDisconnected"}}

-----------------------------------------------------------------------------
(* State machine *)

Init ==
    /\ pc = "idle"
    /\ env \in EnvValues
    /\ invocations = 0
    /\ request = Body("null", "absent", EmptyIncident)
    /\ webhook_url = Null
    /\ lines = <<>>
    /\ joined = ""
    /\ content = ""
    /\ posts = 0
    /\ sent = NoCall
    /\ outcome = NoOutcome
    /\ result = NoResult

(* The environment changes between invocations. *)
SetEnv(u) ==
    /\ pc = "idle"
    /\ u # env
    /\ env' = u
    /\ UNCHANGED <<pc, invocations, request, webhook_url, lines, joined, content,
                   posts, sent, outcome, result>>

(* Lines 12-28: handle, up to its return or to the urlopen call it waits on. *)
Handle(req) ==
    /\ pc = "idle"
    /\ invocations < MaxInvocations
    /\ invocations' = invocations + 1
    /\ request' = req
    /\ UNCHANGED <<env, outcome>>
    /\ LET parsed == ParseRequest(req)
           msg == BuildMessage(parsed.incident)
       IN IF parsed.exc # "none"
          THEN /\ result' = Response(parsed.msg, 400)
               /\ pc' = "returned"
               /\ UNCHANGED <<webhook_url, lines, joined, content, posts, sent>>
          ELSE IF ~Configured(env)
          THEN /\ webhook_url' = env
               /\ result' = Response("Webhook destination is not configured", 500)
               /\ pc' = "returned"
               /\ UNCHANGED <<lines, joined, content, posts, sent>>
          ELSE IF msg.exc # "none"
          THEN /\ webhook_url' = env
               /\ result' = Raised(msg.exc)
               /\ pc' = "returned"
               /\ UNCHANGED <<lines, joined, content, posts, sent>>
          ELSE /\ webhook_url' = env
               /\ lines' = msg.lines
               /\ joined' = msg.joined
               /\ content' = msg.content
               /\ IF HasScheme(PyStr(env))
                  THEN /\ sent' = [url |-> PyStr(env), method |-> "POST",
                                   contentType |-> "application/json",
                                   data |-> JsonDumps(msg.content), timeout |-> 10]
                       /\ posts' = posts + 1
                       /\ pc' = "posting"
                       /\ UNCHANGED result
                  ELSE /\ result' = Raised("ValueError")
                       /\ pc' = "returned"
                       /\ UNCHANGED <<posts, sent>>

(* Lines 121-33: the POST resolves and handle returns. *)
PostResolve(o) ==
    /\ pc = "posting"
    /\ outcome' = o
    /\ result' = AfterPost(PostToDiscord(o))
    /\ pc' = "returned"
    /\ UNCHANGED <<env, invocations, request, webhook_url, lines, joined, content,
                   posts, sent>>

(* The invocation is over; nothing of it is kept. *)
Finish ==
    /\ pc = "returned"
    /\ pc' = "idle"
    /\ request' = Body("null", "absent", EmptyIncident)
    /\ webhook_url' = Null
    /\ lines' = <<>>
    /\ joined' = ""
    /\ content' = ""
    /\ posts' = 0
    /\ sent' = NoCall
    /\ outcome' = NoOutcome
    /\ result' = NoResult
    /\ UNCHANGED <<env, invocations>>

Next ==
    \/ \E u \in EnvValues : SetEnv(u)
    \/ \E req \in Requests : Handle(req)
    \/ \E o \in Outcomes : PostResolve(o)
    \/ Finish

Spec == Init /\ [][Next]_vars

-----------------------------------------------------------------------------
(* Properties of handle *)

Returned == pc = "returned"

Built == lines # <<>>

Incident == request.incident.fields

Valid == ParseRequest(request).exc = "none"

NotConfigured == env.t = "null" \/ env = JStr("")

Completed2xx == outcome.kind = "status" /\ outcome.code \in 200..299

(* C1, as stated: whenever handle returns with WEBHOOK_URL unset or empty,  *)
(* it returns 500 'Webhook destination is not configured' and has made no   *)
(* outbound call.                                                           *)
C1_UnsetAlways500 ==
    Returned /\ NotConfigured =>
        /\ result = Response("Webhook destination is not configured", 500)
        /\ posts = 0 /\ sent = NoCall

(* C1, amended: with WEBHOOK_URL unset or empty no outbound call is made in *)
(* any invocation, and handle returns 500 'Webhook destination is not       *)
(* configured' when the payload passed validation (an invalid payload gets  *)
(* its 400 first).                                                          *)
C1_UnsetValid500 ==
    NotConfigured =>
        /\ posts = 0 /\ sent = NoCall /\ pc # "posting"
        /\ Returned /\ Valid =>
              result = Response("Webhook destination is not configured", 500)
        /\ Returned /\ ~Valid => result.kind = "response" /\ result.status = 400

C1_Witness ==
    /\ Returned /\ Valid /\ env = JStr("") /\ invocations = 2
    /\ result.status = 500

(* C2: the first failing parser check decides a 400 whose body is that      *)
(* check's message, with no outbound call, whatever WEBHOOK_URL is; when    *)
(* the three checks pass the parser returns the 'incident' object as it is  *)
(* and the outcome is no 400.                                               *)
C2_ParserOrder ==
    Returned =>
        /\ request.kind = "invalid" =>
              result = Response("Request body must be valid JSON", 400) /\ posts = 0
        /\ request.kind \notin {"invalid", "dict"} =>
              result = Response("JSON payload must be an object", 400) /\ posts = 0
        /\ request.kind = "dict" /\ request.incident.t # "dict" =>
              result = Response("Payload must include an 'incident' object", 400)
              /\ posts = 0
        /\ request.kind = "dict" /\ request.incident.t = "dict" =>
              /\ ParseRequest(request).exc = "none"
              /\ ParseRequest(request).incident = request.incident.fields
              /\ ~(result.kind = "response" /\ result.status = 400)

C2_Witness ==
    /\ Returned /\ request.kind = "list" /\ request.incident.t = "dict"
    /\ Configured(env)
    /\ result = Response("JSON payload must be an object", 400)

(* C3: once the POST was made, every outcome but a completed 2xx response   *)
(* makes handle return 502 'Failed to deliver incident'; no exception       *)
(* leaves handle.                                                           *)
C3_EveryFailure502 ==
    Returned /\ posts = 1 /\ ~Completed2xx =>
        result = Response("Failed to deliver incident", 502)

(* C4: handle returns ('OK', 200) exactly when the payload passed           *)
(* validation, WEBHOOK_URL was non-empty and the one POST completed with a  *)
(* status in 200..299.                                                      *)
C4_OkIff2xx ==
    Returned =>
        /\ (result.kind = "response" /\ result.status = 200)
              <=> (Valid /\ ~NotConfigured /\ posts = 1 /\ Completed2xx)
        /\ (result.kind = "response" /\ result.body = "OK")
              <=> (result.kind = "response" /\ result.status = 200)

C4_Witness ==
    Returned /\ result = Response("OK", 200) /\ outcome.code = 299

(* C5: the formatter raises for no incident object, whatever the JSON type  *)
(* of its fields: for a valid payload, a well-formed WEBHOOK_URL and        *)
(* timestamps that render, _build_message returns a message and handle goes *)
(* on to the POST, so that its outcome is one of 400, 500, 502 and 200.     *)
C5_FormatterNeverRaises ==
    /\ Returned /\ Valid /\ Configured(env) /\ HasScheme(PyStr(env))
    /\ FormatTimestamp(Incident.started_at).exc = "none"
    /\ FormatTimestamp(Incident.ended_at).exc = "none"
    => /\ BuildMessage(Incident).exc = "none"
       /\ result # Raised("AttributeError")
       /\ Built /\ posts = 1

-----------------------------------------------------------------------------
(* Properties of the message *)

(* C6: the message is at most DISCORD_LIMIT characters; a longer joined     *)
(* text is cut to its first 1997 characters followed by '...', 2000 in      *)
(* all, and a joined text of 2000 characters or fewer is left as it is.     *)
C6_Truncation ==
    Built =>
        /\ Len(content) <= 2000
        /\ Len(joined) > 2000 =>
              /\ content = SubSeq(joined, 1, 1997) \o "..."
              /\ Len(content) = 2000
        /\ Len(joined) <= 2000 => content = joined

C6_Witness ==
    /\ Built /\ Len(joined) = 2001 /\ Len(content) = 2000
    /\ EndsWith(content, "...") /\ ~EndsWith(joined, "...")

C6_WitnessExact == Built /\ Len(joined) = 2000 /\ content = joined

(* Reading back the text json.dumps wrote for a string. *)
UnescapePair(p) ==
    CASE p = "\\\"" -> "\""
      [] p = "\\\\" -> "\\"
      [] p = "\\n" -> "\n"
      [] OTHER -> "?"

RECURSIVE BackslashRun(_, _)
BackslashRun(s, i) ==
    IF i >= 1 /\ SubSeq(s, i, i) = "\\" THEN 1 + BackslashRun(s, i - 1) ELSE 0

RECURSIVE JsonUnescape(_)
JsonUnescape(s) ==
    IF Len(s) <= 1 THEN s
    ELSE IF Len(s) = 2 /\ SubSeq(s, 1, 1) = "\\" THEN UnescapePair(s)
    ELSE LET h == Len(s) \div 2
             m == IF BackslashRun(s, h) % 2 = 1 THEN h + 1 ELSE h
         IN JsonUnescape(SubSeq(s, 1, m)) \o JsonUnescape(SubSeq(s, m + 1, Len(s)))

(* No quote of the text stands unescaped. *)
NoBareQuote(s) ==
    \A i \in 1..Len(s) : SubSeq(s, i, i) = "\"" => BackslashRun(s, i - 1) % 2 = 1

(* C7: at most one POST per invocation, made only for a validated payload   *)
(* and a non-empty WEBHOOK_URL; handle has no result while the POST is      *)
(* pending and does not post again once it resolved; the body is the JSON   *)
(* object whose one key 'content' holds the output of _build_message for    *)
(* the parsed incident.                                                     *)
C7_SinglePost ==
    /\ posts <= 1
    /\ posts = 1 <=> sent # NoCall
    /\ pc = "posting" => posts = 1 /\ result = NoResult /\ outcome = NoOutcome
    /\ outcome # NoOutcome => Returned /\ posts = 1 /\ result # NoResult
    /\ posts = 1 =>
          /\ Valid /\ webhook_url = env /\ env.t = "str" /\ env.s # ""
          /\ sent.url = env.s /\ sent.method = "POST"
          /\ sent.contentType = "application/json"
          /\ LET pre == "{\"content\": \""
                 post == "\"}"
                 inner == SubSeq(sent.data, Len(pre) + 1, Len(sent.data) - Len(post))
             IN /\ StartsWith(sent.data, pre) /\ EndsWith(sent.data, post)
                /\ NoBareQuote(inner)
                /\ JsonUnescape(inner) = content
          /\ BuildMessage(Incident).exc = "none"
          /\ content = BuildMessage(Incident).content

C7_Witness ==
    /\ Returned /\ posts = 1 /\ outcome.kind = "URLError"
    /\ Incident.summary = JStr("say \"hi\" \\ bye")

OptionalPrefixes == <<"Observed Value: ", "Threshold: ", "Link: ">>

IsOptional(line, k) == StartsWith(line, OptionalPrefixes[k])

HasOptional(k) == \E i \in 7..Len(lines) : IsOptional(lines[i], k)

Suppressing == {Absent, Null, JInt(0), JStr("")}

AllPlaceholders ==
    "**(no summary)**\n"
    \o "State: UNKNOWN | Severity: UNSPECIFIED\n"
    \o "Policy: (no policy name) | Condition: (no condition name)\n"
    \o "Resource: (unknown resource)\n"
    \o "Metric: (unknown metric)\n"
    \o "Started: n/a | Ended: n/a"

(* C8: the untruncated message is the newline-joined lines; the first six   *)
(* are summary (bold), State/Severity, Policy/Condition, Resource, Metric,  *)
(* Started/Ended; then 'Observed Value:', 'Threshold:', 'Link:' in that     *)
(* order, each present exactly when its value is truthy (0, '' and null     *)
(* suppress it); with no field at all the message is the six placeholder    *)
(* lines.                                                                   *)
C8_LineOrder ==
    Built =>
        /\ joined = Join(lines)
        /\ Len(lines) >= 6
        /\ StartsWith(lines[1], "**") /\ EndsWith(lines[1], "**")
        /\ StartsWith(lines[2], "State: ")
        /\ StartsWith(lines[3], "Policy: ")
        /\ StartsWith(lines[4], "Resource: ")
        /\ StartsWith(lines[5], "Metric: ")
        /\ StartsWith(lines[6], "Started: ")
        /\ \A i \in 7..Len(lines) : \E k \in 1..3 : IsOptional(lines[i], k)
        /\ \A i, j \in 7..Len(lines) : \A k, l \in 1..3 :
              i < j /\ IsOptional(lines[i], k) /\ IsOptional(lines[j], l) => k < l
        /\ HasOptional(1) <=> Truthy(Incident.observed_value)
        /\ HasOptional(2) <=> Truthy(Incident.threshold_value)
        /\ HasOptional(3) <=> (Truthy(Incident.url) \/ Truthy(Incident.apigee_url))
        /\ Incident.observed_value \in Suppressing => ~HasOptional(1)
        /\ Incident.threshold_value \in Suppressing => ~HasOptional(2)
        /\ Incident.url \in Suppressing /\ Incident.apigee_url \in Suppressing
              => ~HasOptional(3)
        /\ Incident = EmptyIncident => content = AllPlaceholders
        /\ Incident = DiskFull =>
              /\ StartsWith(content, "**Disk full**\n")
              /\ lines[2] = "State: OPEN | Severity: critical"
              /\ lines[7] = "Observed Value: 95" /\ Len(lines) = 7

C8_Witness ==
    /\ Built /\ Len(lines) = 8
    /\ Incident.observed_value = JInt(0)
    /\ IsOptional(lines[7], 2) /\ IsOptional(lines[8], 3)

(* C9: _format_timestamp raises for no value: null and '' give 'n/a', a     *)
(* number or numeric string gives the UTC date (0 gives 1970-01-01          *)
(* 00:00:00Z), anything else, out-of-range numbers included, gives the      *)
(* value's own text.                                                        *)
C9_TimestampTotal ==
    Returned /\ Valid /\ Configured(env) =>
        \A v \in {Incident.started_at, Incident.ended_at} :
            LET r == FormatTimestamp(v)
            IN /\ r.exc = "none"
               /\ result # Raised("OverflowError")
               /\ v \in {Absent, Null, JStr("")} => r.text = "n/a"
               /\ v \in {JInt(0), JStr("0")} => r.text = "1970-01-01 00:00:00Z"
               /\ v \in {JInt(1700000000), JStr("1700000000")} =>
                     r.text = "2023-11-14 22:13:20Z"
               /\ v.t = "float" => r.text = v.s
               /\ v = JStr("2024-01-01T00:00:00Z") => r.text = v.s

FirstNonEmpty(cands, placeholder) ==
    LET nonEmpty(v) == v.t \notin {"absent", "null", "list", "dict"} /\ v # JStr("")
        found == SelectSeq(cands, nonEmpty)
    IN IF found = <<>> THEN placeholder ELSE PyStr(found[1])

FirstTruthy(cands, placeholder) ==
    LET found == SelectSeq(cands, Truthy)
    IN IF found = <<>> THEN placeholder ELSE PyStr(found[1])

ResourceCandidates ==
    <<Incident.resource_display_name, Incident.resource_name,
      IF Incident.resource.t = "dict" /\ Incident.resource.labels.t = "dict"
      THEN Incident.resource.labels.instance_id ELSE Absent>>

MetricCandidates ==
    IF Incident.metric.t = "dict"
    THEN <<Incident.metric.displayName, Incident.metric.type>> ELSE <<>>

(* C10, as stated: each field shown is the first candidate that is neither  *)
(* null nor empty, else its placeholder.                                    *)
C10_FirstNonEmpty ==
    Built =>
        /\ lines[4] = "Resource: " \o FirstNonEmpty(ResourceCandidates, "(unknown resource)")
        /\ lines[5] = "Metric: " \o FirstNonEmpty(MetricCandidates, "(unknown metric)")
        /\ StartsWith(lines[2],
                      "State: " \o Upper(FirstNonEmpty(<<Incident.state>>, "UNKNOWN")) \o " | ")

(* C10, amended: each field shown is the first truthy candidate (0 and      *)
(* false are passed over like null and ''), else its placeholder; state is  *)
(* upper-cased; Link shows url when truthy and apigee_url only otherwise.   *)
C10_FirstTruthy ==
    Built =>
        /\ lines[1] = "**" \o FirstTruthy(<<Incident.summary>>, "(no summary)") \o "**"
        /\ lines[2] = "State: " \o Upper(FirstTruthy(<<Incident.state>>, "UNKNOWN"))
                      \o " | Severity: " \o FirstTruthy(<<Incident.severity>>, "UNSPECIFIED")
        /\ lines[3] = "Policy: " \o FirstTruthy(<<Incident.policy_name>>, "(no policy name)")
                      \o " | Condition: "
                      \o FirstTruthy(<<Incident.condition_name>>, "(no condition name)")
        /\ lines[4] = "Resource: " \o FirstTruthy(ResourceCandidates, "(unknown resource)")
        /\ lines[5] = "Metric: " \o FirstTruthy(MetricCandidates, "(unknown metric)")
        /\ HasOptional(3) =>
              lines[Len(lines)] = "Link: " \o FirstTruthy(<<Incident.url, Incident.apigee_url>>, "")

C10_Witness ==
    /\ Built
    /\ Incident.resource_display_name = JInt(0)
    /\ Incident.resource_name = Null
    /\ lines[4] = "Resource: i-123"

====
